---- MODULE Spec2Model ----
(***************************************************************************)
(* A model of app.py, the FinSight Streamlit page: one script run per user *)
(* interaction, the two st.cache_data memo tables, st.session_state, the   *)
(* remote generate_content exchange and the elements the run puts on the   *)
(* page.                                                                   *)
(***************************************************************************)
EXTENDS Integers, Sequences, FiniteSets, TLC

VARIABLES
    has_api_key,      \* "google_api_key" is in st.secrets (fixed per deployment)
    pc,               \* position of the script run; "idle" between runs
    uploaded_file,    \* value of st.file_uploader in the current run
    clicked,          \* value of st.button in the current run
    button_shown,     \* the button is on the page (it was rendered by the last run)
    analysis_result,  \* st.session_state.analysis_result
    last_file_name,   \* st.session_state.last_file_name
    full_text,        \* the handler's local full_text (line 163)
    extract_cache,    \* st.cache_data table of extract_text_from_pdf
    analysis_cache,   \* st.cache_data table of analyze_financial_text_with_gemini
    remote_log,       \* the generate_content exchanges, in order: request and reply
    calls,            \* the cached functions the current run has called
    rendered,         \* the elements the current run has put on the page
    run_prev          \* the uploader value and session_state of the session before
                      \* the interaction that started the current run

vars == <<has_api_key, pc, uploaded_file, clicked, button_shown, analysis_result,
          last_file_name, full_text, extract_cache, analysis_cache, remote_log,
          calls, rendered, run_prev>>

-----------------------------------------------------------------------------
(* Bounds of the model. *)

MaxPages == 3         \* pages of a PDF drawn for the extraction specification
MaxRemoteCalls == 2   \* no new interaction once this many remote exchanges happened

(* app.py:164, len(full_text) > 100 *)
MinTextLen == 100

-----------------------------------------------------------------------------
(* Python values, tagged by type. *)

None == [kind |-> "None"]
Unset == [kind |-> "unset"]                 \* a key that is not in st.session_state
Str(x) == [kind |-> "str", s |-> x]
Dict(it) == [kind |-> "dict", items |-> it] \* items: <<key, value>> in insertion order
List(it) == [kind |-> "list", items |-> it]
Num(n) == [kind |-> "int", n |-> n]

Range(q) == {q[i] : i \in 1..Len(q)}

(* bool(v), as the if statements of lines 62, 164, 173 and 185 take it *)
Truthy(v) ==
    CASE v.kind = "None" -> FALSE
      [] v.kind = "str"  -> v.s # ""
      [] v.kind = "dict" -> v.items # <<>>
      [] v.kind = "list" -> v.items # <<>>
      [] v.kind = "int"  -> v.n # 0
      [] OTHER -> FALSE

(* str(v), as st.metric(value=str(value)) takes it; containers are not shown as metrics
   by the replies of the model *)
PyStr(v) == IF v.kind = "str" THEN v.s ELSE v.kind

HasKey(d, k) == \E i \in 1..Len(d.items) : d.items[i][1] = k

(* dict.get(k, default) *)
Get(d, k, default) ==
    IF HasKey(d, k)
    THEN (CHOOSE p \in Range(d.items) : p[1] = k)[2]
    ELSE default

-----------------------------------------------------------------------------
(* PDF files. A page is what page.extract_text() does on it: return a string,
   return None, or raise. *)

PageText(t) == [kind |-> "str", s |-> t]
PageNone == None
PageRaises == [kind |-> "raises"]

Pdf(corrupt, pages) == [corrupt |-> corrupt, pages |-> pages]
File(name, content) == [kind |-> "file", name |-> Str(name), content |-> content]
NoFile == None

RECURSIVE Pad(_)
Pad(n) == IF n = 0 THEN "" ELSE "x" \o Pad(n - 1)

(* A loop that drops the "if page_text:" test of line 62 appends a bare newline for
   a page without text (None + "\n" would raise; "" + "\n" is "\n"). *)
RECURSIVE PageLoopNoTest(_, _, _)
PageLoopNoTest(pages, i, text) ==
    IF i > Len(pages) THEN [value |-> text, error |-> FALSE]
    ELSE IF pages[i].kind # "str" THEN [value |-> "", error |-> TRUE]
    ELSE PageLoopNoTest(pages, i + 1, text \o pages[i].s \o "\n")

(* The loop of lines 60-63 from page i on, with the try/except of lines 58-67 around
   it: the value returned and whether st.error (line 66) was called. *)
RECURSIVE PageLoop(_, _, _)
PageLoop(pages, i, text) ==
    IF i > Len(pages) THEN [value |-> text, error |-> FALSE]
    ELSE IF pages[i].kind = "raises" THEN [value |-> "", error |-> TRUE]
    ELSE IF Truthy(pages[i]) THEN PageLoop(pages, i + 1, text \o pages[i].s \o "\n")
    ELSE PageLoop(pages, i + 1, text)

(* extract_text_from_pdf, lines 49-67 (the body, without the cache) *)
extract_text_from_pdf(file) ==
    IF file.kind = "None" THEN [value |-> "", error |-> FALSE]
    ELSE IF file.content.corrupt THEN [value |-> "", error |-> TRUE]
    ELSE PageLoop(file.content.pages, 1, "")

-----------------------------------------------------------------------------
(* st.cache_data. The key of an entry is the hash of the arguments whose parameter
   name does not begin with an underscore; an entry keeps the returned value (None
   included) and the elements the body put on the page, which a hit replays. The
   tables have no ttl and no max_entries: an entry is never dropped. *)

EmptyCache == [k \in {} |-> None]

(* line 48-49: the one parameter, uploaded_file, is hashed (name and bytes) *)
ExtractCacheKey(file) == <<file>>

(* A key that holds the text: what the comments of lines 73 and 165 describe. *)
AnalysisCacheKeyByText(text_chunk) == <<text_chunk>>

(* line 69-70: the one parameter, _text_chunk, begins with an underscore and is
   left out of the key *)
AnalysisCacheKey(text_chunk) == <<>>

(* A cache that keeps no entry for a call that reported an error. *)
CacheStoreUnlessError(cache, key, entry) ==
    IF entry.error THEN cache ELSE (key :> entry) @@ cache

(* the write of a computed value after a miss *)
CacheStore(cache, key, entry) == (key :> entry) @@ cache

-----------------------------------------------------------------------------
(* The remote service, lines 124-137. A reply is an exception raised by
   generate_content or a response whose text is one of ResponseTexts. *)

JsonRaises == [kind |-> "raises"]

FullReport ==
    Dict(<< <<"executive_summary", Str("Healthy.")>>,
            <<"key_ratios", Dict(<< <<"Current Ratio", Str("2.00")>>,
                                    <<"Net Profit Margin", Str("N/A")>> >>)>>,
            <<"extracted_data", Dict(<< <<"Total Revenue", Num(1000000)>> >>)>> >>)

NoRatiosReport ==
    Dict(<< <<"executive_summary", Str("Thin.")>>,
            <<"key_ratios", Dict(<<>>)>>,
            <<"extracted_data", Dict(<<>>)>> >>)

DataOnlyReport == Dict(<< <<"extracted_data", Dict(<< <<"Net Income", None>> >>)>> >>)

ResponseTexts ==
    { "I'm sorry, I cannot analyze this.",
      "null",
      "{}",
      "[1]",
      "{\"extracted_data\": {\"Net Income\": null}}",
      "{\"executive_summary\": \"Thin.\", \"key_ratios\": {}, \"extracted_data\": {}}",
      "{\"executive_summary\": \"Healthy.\", \"key_ratios\": {\"Current Ratio\": \"2.00\", \"Net Profit Margin\": \"N/A\"}, \"extracted_data\": {\"Total Revenue\": 1000000}}" }

(* json.loads (line 133) on the response texts of the model *)
json_loads(text) ==
    CASE text = "null" -> None
      [] text = "{}" -> Dict(<<>>)
      [] text = "[1]" -> List(<<Num(1)>>)
      [] text = "{\"extracted_data\": {\"Net Income\": null}}" -> DataOnlyReport
      [] text = "{\"executive_summary\": \"Thin.\", \"key_ratios\": {}, \"extracted_data\": {}}"
             -> NoRatiosReport
      [] text = "{\"executive_summary\": \"Healthy.\", \"key_ratios\": {\"Current Ratio\": \"2.00\", \"Net Profit Margin\": \"N/A\"}, \"extracted_data\": {\"Total Revenue\": 1000000}}"
             -> FullReport
      [] OTHER -> JsonRaises

Replies == {[kind |-> "exception"]} \cup {[kind |-> "response", text |-> t] : t \in ResponseTexts}

(* line 76 and lines 126-131: the request; the prompt of lines 79-123 is fixed but
   for the text it embeds at line 119 *)
Request(text_chunk) ==
    [model |-> "gemini-2.0-flash", text_chunk |-> text_chunk,
     response_mime_type |-> "application/json"]

(* lines 124-137 on a reply: the value returned and whether st.error (line 136) was
   called *)
analyze_financial_text_with_gemini(text_chunk, reply) ==
    IF reply.kind = "exception" THEN [value |-> None, error |-> TRUE]
    ELSE IF json_loads(reply.text).kind = "raises" THEN [value |-> None, error |-> TRUE]
    ELSE [value |-> json_loads(reply.text), error |-> FALSE]

-----------------------------------------------------------------------------
(* Elements on the page. *)

El(type, label, body) == [el |-> type, label |-> label, body |-> body]

ConfigError == El("error", "Google API key not found in Streamlit secrets.", None)
ConfigInfo == El("info", "Please add your Google API key to your Streamlit secrets.", None)
ExtractError == El("error", "Error extracting text from PDF", None)
AnalysisError == El("error", "Error during AI analysis with Gemini", None)
InsufficientError == El("error", "Could not extract sufficient text from the document.", None)
Button == El("button", "Analyze Financials", None)
ReportHeader == El("header", "Financial Analysis Report", None)
SummaryPlaceholder == Str("Summary could not be generated.")
RatiosWarning == El("warning", "No key ratios could be calculated from the document.", None)
NoDataPlaceholder == Dict(<< <<"error", Str("No data extracted.")>> >>)
ScriptException == El("exception", "AttributeError", None)
Footer == El("markdown", "Powered by Google Gemini 1.5 Flash and Streamlit.", None)

(* lines 186-189: one metric per entry, in the order of items() *)
Metrics(key_ratios) ==
    [i \in 1..Len(key_ratios.items) |->
        El("metric", key_ratios.items[i][1], Str(PyStr(key_ratios.items[i][2])))]

(* lines 183-191 *)
RatiosSection(result) ==
    LET key_ratios == Get(result, "key_ratios", Dict(<<>>))
    IN  <<El("subheader", "Key Financial Ratios", None)>> \o
        (IF Truthy(key_ratios)
         THEN IF key_ratios.kind = "dict" THEN Metrics(key_ratios) ELSE <<ScriptException>>
         ELSE <<RatiosWarning>>)

(* line 173: if st.session_state.analysis_result: *)
ResultShown(result) == Truthy(result)

(* lines 173-198: what the end of the script puts on the page. A value without
   .get (a list) raises at line 180 and the run ends there, without the footer. *)
DisplayResults(result) ==
    IF ~ResultShown(result) THEN <<Footer>>
    ELSE <<El("markdown", "---", None), ReportHeader,
           El("subheader", "Executive Summary", None)>> \o
         (IF result.kind # "dict" THEN <<ScriptException>>
          ELSE <<El("info", "", Get(result, "executive_summary", SummaryPlaceholder))>> \o
               (IF ScriptException \in Range(RatiosSection(result))
                THEN RatiosSection(result)
                ELSE RatiosSection(result) \o
                     <<El("json", "View Raw Extracted Data (JSON)",
                          Get(result, "extracted_data", NoDataPlaceholder)),
                       Footer>>))

-----------------------------------------------------------------------------
(* The files a user uploads. *)

ReportA == Pdf(FALSE, <<PageText(Pad(MinTextLen))>>)                 \* 101 characters
ReportB == Pdf(FALSE, <<PageText("Revenue: 100"), PageNone, PageText(Pad(MinTextLen))>>)
Short == Pdf(FALSE, <<PageText(Pad(MinTextLen - 1))>>)               \* 100 characters
Broken == Pdf(FALSE, <<PageText(Pad(MinTextLen)), PageRaises>>)

Files ==
    { File("a.pdf", ReportA), File("a.pdf", ReportB), File("a.pdf", Short),
      File("b.pdf", ReportB), File("b.pdf", Broken) }

-----------------------------------------------------------------------------
(* The state before the first request. *)

Init ==
    /\ has_api_key \in BOOLEAN
    /\ pc = "idle"
    /\ uploaded_file = NoFile
    /\ clicked = FALSE
    /\ button_shown = FALSE
    /\ analysis_result = Unset
    /\ last_file_name = Unset
    /\ full_text = ""
    /\ extract_cache = EmptyCache
    /\ analysis_cache = EmptyCache
    /\ remote_log = <<>>
    /\ calls = {}
    /\ rendered = <<>>
    /\ run_prev = [uploaded_file |-> NoFile, analysis_result |-> Unset,
                   last_file_name |-> Unset]

NewSession ==
    [uploaded_file |-> NoFile, analysis_result |-> Unset, last_file_name |-> Unset]

Snapshot ==
    [uploaded_file |-> uploaded_file, analysis_result |-> analysis_result,
     last_file_name |-> last_file_name]

(* Every interaction reruns the script from its first line with the widget values
   of the interaction. *)
StartRun(file, click, snapshot) ==
    /\ pc = "idle"
    /\ Len(remote_log) < MaxRemoteCalls
    /\ pc' = "config"
    /\ uploaded_file' = file
    /\ clicked' = click
    /\ calls' = {}
    /\ rendered' = <<>>
    /\ run_prev' = snapshot
    /\ UNCHANGED <<has_api_key, button_shown, full_text, extract_cache,
                   analysis_cache, remote_log>>

UploaderShown == has_api_key /\ analysis_result.kind # "unset"

(* A browser opens the page: a new session, with an empty st.session_state and
   empty widgets; the st.cache_data tables belong to the server and are kept. *)
OpenPage ==
    /\ StartRun(NoFile, FALSE, NewSession)
    /\ analysis_result' = Unset
    /\ last_file_name' = Unset

(* The user puts a file in the uploader, or replaces the one in it. *)
UploadFile(f) ==
    /\ UploaderShown
    /\ f # uploaded_file
    /\ StartRun(f, FALSE, Snapshot)
    /\ UNCHANGED <<analysis_result, last_file_name>>

(* The user removes the file from the uploader. *)
RemoveFile ==
    /\ UploaderShown
    /\ uploaded_file.kind = "file"
    /\ StartRun(NoFile, FALSE, Snapshot)
    /\ UNCHANGED <<analysis_result, last_file_name>>

(* The user clicks "Analyze Financials". *)
ClickAnalyze ==
    /\ button_shown
    /\ StartRun(uploaded_file, TRUE, Snapshot)
    /\ UNCHANGED <<analysis_result, last_file_name>>

(* The user replaces the file and clicks before the run of the replacement passed
   the uploader: the two rerun requests are merged into one run. *)
UploadAndClick(f) ==
    /\ button_shown
    /\ f # uploaded_file
    /\ StartRun(f, TRUE, Snapshot)
    /\ UNCHANGED <<analysis_result, last_file_name>>

-----------------------------------------------------------------------------
(* The steps of a script run. *)

(* lines 38-43 *)
Configure ==
    /\ pc = "config"
    /\ IF has_api_key
       THEN /\ pc' = "session"
            /\ UNCHANGED <<rendered, button_shown>>
       ELSE /\ pc' = "idle"
            /\ rendered' = rendered \o <<ConfigError, ConfigInfo>>
            /\ button_shown' = FALSE
    /\ UNCHANGED <<has_api_key, uploaded_file, clicked, analysis_result, last_file_name,
                   full_text, extract_cache, analysis_cache, remote_log, calls, run_prev>>

(* lines 145-148 *)
SessionInit ==
    /\ pc = "session"
    /\ pc' = "upload"
    /\ analysis_result' = IF analysis_result.kind = "unset" THEN None ELSE analysis_result
    /\ last_file_name' = IF last_file_name.kind = "unset" THEN None ELSE last_file_name
    /\ UNCHANGED <<has_api_key, uploaded_file, clicked, button_shown, full_text,
                   extract_cache, analysis_cache, remote_log, calls, rendered, run_prev>>

(* An identity check that updates the name and keeps the result. *)
ResultKeptOnNewName(file, last, result) == result

(* lines 156-159: session_state.analysis_result after the identity check *)
ResultAfterUploadCheck(file, last, result) ==
    IF file.kind = "file" /\ last # file.name THEN None ELSE result

(* An identity check that clears the result and keeps the name. *)
NameKeptOnNewName(file, last) == last

(* lines 156-160: session_state.last_file_name after the identity check *)
NameAfterUploadCheck(file, last) ==
    IF file.kind = "file" /\ last # file.name THEN file.name ELSE last

(* lines 156-160 *)
UploadCheck ==
    /\ pc = "upload"
    /\ pc' = "button"
    /\ analysis_result' = ResultAfterUploadCheck(uploaded_file, last_file_name, analysis_result)
    /\ last_file_name' = NameAfterUploadCheck(uploaded_file, last_file_name)
    /\ UNCHANGED <<has_api_key, uploaded_file, clicked, button_shown, full_text,
                   extract_cache, analysis_cache, remote_log, calls, rendered, run_prev>>

(* A handler that is not under the "if st.button(...)" of line 162. *)
HandlerRunsOnUpload(file, click) == file.kind = "file"

(* lines 156 and 162: the handler runs in a run with a file and a click *)
HandlerRuns(file, click) == file.kind = "file" /\ click

(* A threshold test that lets a text of exactly MinTextLen characters through. *)
SufficientAtLeast(text) == text # "" /\ Len(text) >= MinTextLen

(* line 164: if full_text and len(full_text) > 100 *)
Sufficient(text) == text # "" /\ Len(text) > MinTextLen

Called(fn, hit) == [fn |-> fn, hit |-> hit]

(* lines 163-170, with the reply the remote service gives if it is asked *)
Handler(reply) ==
    LET ekey == ExtractCacheKey(uploaded_file)
        ehit == ekey \in DOMAIN extract_cache
        ex   == IF ehit THEN extract_cache[ekey] ELSE extract_text_from_pdf(uploaded_file)
        text == ex.value
        akey == AnalysisCacheKey(text)
        ahit == akey \in DOMAIN analysis_cache
        an   == IF ahit THEN analysis_cache[akey]
                ELSE analyze_financial_text_with_gemini(text, reply)
        shown == rendered \o <<Button>> \o (IF ex.error THEN <<ExtractError>> ELSE <<>>)
    IN  /\ full_text' = text
        /\ extract_cache' = IF ehit THEN extract_cache ELSE CacheStore(extract_cache, ekey, ex)
        /\ IF Sufficient(text)
           THEN /\ analysis_cache' =
                      IF ahit THEN analysis_cache ELSE CacheStore(analysis_cache, akey, an)
                /\ remote_log' =
                      IF ahit THEN remote_log
                      ELSE Append(remote_log, [request |-> Request(text), reply |-> reply])
                /\ analysis_result' = an.value
                /\ calls' = {Called("extract_text_from_pdf", ehit),
                             Called("analyze_financial_text_with_gemini", ahit)}
                /\ rendered' = shown \o (IF an.error THEN <<AnalysisError>> ELSE <<>>)
           ELSE /\ analysis_result' = None
                /\ calls' = {Called("extract_text_from_pdf", ehit)}
                /\ rendered' = shown \o <<InsufficientError>>
                /\ UNCHANGED <<analysis_cache, remote_log>>

(* lines 162-170 *)
AnalyzeButton ==
    /\ pc = "button"
    /\ pc' = "display"
    /\ button_shown' = (uploaded_file.kind = "file")
    /\ IF HandlerRuns(uploaded_file, clicked)
       THEN \E reply \in Replies : Handler(reply)
       ELSE /\ rendered' = rendered \o (IF uploaded_file.kind = "file" THEN <<Button>> ELSE <<>>)
            /\ UNCHANGED <<analysis_result, full_text, extract_cache, analysis_cache,
                           remote_log, calls>>
    /\ UNCHANGED <<has_api_key, uploaded_file, clicked, last_file_name, run_prev>>

(* lines 173-198 *)
Display ==
    /\ pc = "display"
    /\ pc' = "idle"
    /\ rendered' = rendered \o DisplayResults(analysis_result)
    /\ UNCHANGED <<has_api_key, uploaded_file, clicked, button_shown, analysis_result,
                   last_file_name, full_text, extract_cache, analysis_cache, remote_log,
                   calls, run_prev>>

Next ==
    \/ OpenPage
    \/ \E f \in Files : UploadFile(f)
    \/ RemoveFile
    \/ ClickAnalyze
    \/ \E f \in Files : UploadAndClick(f)
    \/ Configure
    \/ SessionInit
    \/ UploadCheck
    \/ AnalyzeButton
    \/ Display

Spec == Init /\ [][Next]_vars

-----------------------------------------------------------------------------
(* extract_text_from_pdf on its own: every PDF of up to MaxPages pages. *)

PageOutcomes ==
    {PageText("Revenue: 100"), PageText("Net Income: 10"), PageText(""), PageNone, PageRaises}

PageSeqs == UNION {[1..n -> PageOutcomes] : n \in 0..MaxPages}

ExtractInputs ==
    {File("report.pdf", Pdf(FALSE, p)) : p \in PageSeqs} \cup
    {File("report.pdf", Pdf(TRUE, <<>>))}

InitExtract ==
    /\ has_api_key = TRUE
    /\ pc = "extract"
    /\ uploaded_file \in ExtractInputs
    /\ clicked = TRUE
    /\ button_shown = TRUE
    /\ analysis_result = None
    /\ last_file_name = uploaded_file.name
    /\ full_text = ""
    /\ extract_cache = EmptyCache
    /\ analysis_cache = EmptyCache
    /\ remote_log = <<>>
    /\ calls = {}
    /\ rendered = <<Button>>
    /\ run_prev = [uploaded_file |-> uploaded_file, analysis_result |-> None,
                   last_file_name |-> uploaded_file.name]

(* line 163, on a table without the file *)
ExtractCall ==
    /\ pc = "extract"
    /\ pc' = "extracted"
    /\ LET ex == extract_text_from_pdf(uploaded_file)
       IN  /\ full_text' = ex.value
           /\ extract_cache' = CacheStore(extract_cache, ExtractCacheKey(uploaded_file), ex)
           /\ rendered' = rendered \o (IF ex.error THEN <<ExtractError>> ELSE <<>>)
    /\ calls' = {Called("extract_text_from_pdf", FALSE)}
    /\ UNCHANGED <<has_api_key, uploaded_file, clicked, button_shown, analysis_result,
                   last_file_name, analysis_cache, remote_log, run_prev>>

NextExtract == ExtractCall

SpecExtract == InitExtract /\ [][NextExtract]_vars

-----------------------------------------------------------------------------
(* Properties. *)

Shown(e) == e \in Range(rendered)
AnalyzeCalled(c) == \E hit \in BOOLEAN : Called("analyze_financial_text_with_gemini", hit) \in c
HandlerStep == pc = "button" /\ pc' = "display" /\ uploaded_file.kind = "file" /\ clicked
FailedReply(reply) ==
    reply.kind = "exception" \/ json_loads(reply.text).kind = "raises"

(* C1: in a run whose uploaded file has a name other than the stored last_file_name,
   when the script reaches the analyze button the stored result is None and
   last_file_name is the new name, and the run has called no cached function and
   rendered no report yet. *)
C1_ClearedBeforeButton ==
    (pc = "button" /\ uploaded_file.kind = "file"
       /\ run_prev.last_file_name # uploaded_file.name)
    => /\ analysis_result = None
       /\ last_file_name = uploaded_file.name
       /\ calls = {}
       /\ ~Shown(ReportHeader)

C1_Witness ==
    /\ pc = "button"
    /\ uploaded_file.kind = "file"
    /\ run_prev.last_file_name.kind = "str"
    /\ run_prev.last_file_name # uploaded_file.name
    /\ Truthy(run_prev.analysis_result)
    /\ analysis_result = None

(* C2: after an analyze action that called the analysis function on the text of the
   uploaded file, the remote service was asked about that text and the stored result
   is what the function makes of the reply to that request. *)
C2_ResultIsForCurrentText ==
    (pc = "display" /\ AnalyzeCalled(calls))
    => \E i \in 1..Len(remote_log) :
          /\ remote_log[i].request.text_chunk = full_text
          /\ analysis_result =
                analyze_financial_text_with_gemini(full_text, remote_log[i].reply).value

(* C3: no two remote requests carry the same text, and an analyze action on a text
   that was already sent makes no remote request. *)
C3_AtMostOncePerText ==
    /\ [](\A i, j \in 1..Len(remote_log) :
            remote_log[i].request.text_chunk = remote_log[j].request.text_chunk => i = j)
    /\ [][(HandlerStep /\ AnalyzeCalled(calls')
             /\ \E i \in 1..Len(remote_log) : remote_log[i].request.text_chunk = full_text')
          => remote_log' = remote_log]_vars

C3_Witness ==
    /\ pc = "display"
    /\ Called("analyze_financial_text_with_gemini", TRUE) \in calls
    /\ Len(remote_log) = 1
    /\ remote_log[1].request.text_chunk = full_text
    /\ remote_log[1].reply.kind = "exception"

(* C4: an analyze action on a text that is empty or has at most MinTextLen characters
   makes no remote request, shows the insufficient-text error and leaves the stored
   result None; a remote request is made only for a longer text. *)
C4_ShortTextNotAnalyzed ==
    [][HandlerStep =>
         /\ (full_text' = "" \/ Len(full_text') <= MinTextLen)
              => /\ remote_log' = remote_log
                 /\ analysis_cache' = analysis_cache
                 /\ ~AnalyzeCalled(calls')
                 /\ InsufficientError \in Range(rendered')
                 /\ analysis_result' = None
         /\ remote_log' # remote_log => Len(full_text') > MinTextLen]_vars

C4_Witness ==
    /\ pc = "display"
    /\ clicked
    /\ Len(full_text) = MinTextLen
    /\ Shown(InsufficientError)
    /\ analysis_result = None

(* C5: an analyze action in which the remote call fails or its reply is not JSON, or
   in which such a failure is replayed from the cache, shows the analysis error,
   produces no result and leaves analysis_result and last_file_name as they were. *)
C5_FailureLeavesState ==
    [][(HandlerStep
          /\ \/ /\ remote_log' # remote_log
                /\ FailedReply(remote_log'[Len(remote_log')].reply)
             \/ AnalysisError \in Range(rendered'))
       => /\ AnalysisError \in Range(rendered')
          /\ analysis_result' = None
          /\ analysis_result' = analysis_result
          /\ last_file_name' = last_file_name]_vars

C5_Witness ==
    /\ pc = "display"
    /\ Called("analyze_financial_text_with_gemini", FALSE) \in calls
    /\ Len(remote_log) = 1
    /\ remote_log[1].reply.kind = "response"
    /\ FailedReply(remote_log[1].reply)
    /\ Shown(AnalysisError)
    /\ analysis_result = None

(* C6: no step of a run without a click calls a cached function, writes a cache,
   makes a remote request or stores a result other than None. *)
C6_ClickIsSoleTrigger ==
    [][(pc # "idle" /\ ~clicked)
       => /\ calls' = {}
          /\ extract_cache' = extract_cache
          /\ analysis_cache' = analysis_cache
          /\ remote_log' = remote_log
          /\ (analysis_result' = analysis_result \/ analysis_result' = None)]_vars

C6_Witness ==
    /\ pc = "idle"
    /\ ~clicked
    /\ Shown(Button)
    /\ run_prev.uploaded_file.kind = "file"
    /\ uploaded_file.kind = "file"
    /\ run_prev.uploaded_file # uploaded_file
    /\ Truthy(run_prev.analysis_result)
    /\ calls = {}

RECURSIVE JoinLines(_)
JoinLines(q) ==
    IF q = <<>> THEN ""
    ELSE JoinLines(SubSeq(q, 1, Len(q) - 1)) \o q[Len(q)].s \o "\n"

HasText(p) == p.kind = "str" /\ p.s # ""

ExpectedText(pages) ==
    IF \E i \in 1..Len(pages) : pages[i].kind = "raises" THEN ""
    ELSE JoinLines(SelectSeq(pages, HasText))

(* C7: for a PDF that opens, the text extracted is the texts of the pages that have
   text, each followed by a newline, in page order; if a page raises it is the empty
   string and the extraction error is shown. *)
C7_ExtractConcatenates ==
    (pc = "extracted" /\ ~uploaded_file.content.corrupt)
    => /\ full_text = ExpectedText(uploaded_file.content.pages)
       /\ Shown(ExtractError) <=>
             \E i \in 1..Len(uploaded_file.content.pages) :
                uploaded_file.content.pages[i].kind = "raises"

C7_Witness ==
    /\ pc = "extracted"
    /\ uploaded_file.content.pages =
          <<PageText("Revenue: 100"), PageNone, PageText("Net Income: 10")>>
    /\ full_text = "Revenue: 100\nNet Income: 10\n"

(* C8: at the end of a run whose analysis returned a JSON object, the report is on
   the page: the summary (or its placeholder) and one metric per key_ratios entry (or
   the warning when there is none). *)
C8_ReportRenderedAfterSuccess ==
    (pc = "idle" /\ AnalyzeCalled(calls) /\ analysis_result.kind = "dict")
    => /\ Shown(ReportHeader)
       /\ Shown(El("info", "", Get(analysis_result, "executive_summary", SummaryPlaceholder)))
       /\ LET key_ratios == Get(analysis_result, "key_ratios", Dict(<<>>))
          IN  IF key_ratios.items = <<>> THEN Shown(RatiosWarning)
              ELSE \A i \in 1..Len(key_ratios.items) :
                     Shown(El("metric", key_ratios.items[i][1],
                              Str(PyStr(key_ratios.items[i][2]))))

(* C9: at the end of a run, without a click, in which the uploaded file replaced a
   file of other content while a result was stored and shown, the stored result is
   None. *)
C9_FreshUploadClears ==
    (pc = "idle" /\ ~clicked /\ Shown(Footer)
       /\ run_prev.uploaded_file.kind = "file"
       /\ uploaded_file.kind = "file"
       /\ uploaded_file.content # run_prev.uploaded_file.content
       /\ Truthy(run_prev.analysis_result))
    => analysis_result = None

(* C10, as claimed: whenever the report is on the page a file is uploaded and its
   name is last_file_name. *)
C10_ReportOnlyWithFile ==
    Shown(ReportHeader)
    => (uploaded_file.kind = "file" /\ uploaded_file.name = last_file_name)

(* C10, amended: whenever the report is on the page last_file_name holds a file
   name, and a file that is uploaded has that name; at the end of a run without a
   file in a session that had a result shown, that result is still stored and the
   report is on the page. *)
C10_ReportHasStoredName ==
    /\ Shown(ReportHeader)
         => /\ last_file_name.kind = "str"
            /\ uploaded_file.kind = "file" => uploaded_file.name = last_file_name
    /\ (pc = "idle" /\ uploaded_file = NoFile /\ Truthy(run_prev.analysis_result))
         => /\ analysis_result = run_prev.analysis_result
            /\ Shown(ReportHeader)

C10_Witness ==
    /\ pc = "idle"
    /\ Shown(ReportHeader)
    /\ uploaded_file = NoFile
    /\ run_prev.uploaded_file.kind = "file"
    /\ last_file_name = run_prev.uploaded_file.name

====
